---- MODULE Spec2Model ----
(***************************************************************************)
(* Notification scheduling of the EyeMate backend: the medication reminder *)
(* cron jobs (routes/medication.js), the appointment reminder scheduler    *)
(* (services/appointmentScheduler.js) and the push dispatch                *)
(* (services/pushNotification.js), over the database tables they share.    *)
(*                                                                         *)
(* Every database statement is one atomic step.  The clock `now` is the    *)
(* wall clock read by NOW(), CURDATE() and new Date(); it is a day number  *)
(* and a second of that day.  Variables whose comment says "history" are   *)
(* not program state: they record what a step did so that properties can   *)
(* speak about it.                                                         *)
(***************************************************************************)
EXTENDS Integers, Sequences, FiniteSets, TLC

VARIABLES
    now,            \* wall clock: [day, sec]
    appointments,   \* table Appointments: id -> row
    apptReminders,  \* table Appointment_Reminders: sequence of rows
    reminders,      \* table Medication_Reminders: id -> row
    doses,          \* table Medication_Doses: set of rows
    notifications,  \* table Notifications: sequence of rows
    pushSubs,       \* table Push_Subscriptions: id -> row
    pc,             \* per task instance: the statement it is at
    cands,          \* per task instance: the rows its query returned
    idx,            \* per task instance: index of the candidate in the loop
    runNo,          \* per task instance: number of its current run (history)
    runs,           \* number of task runs started so far (history)
    pushes,         \* calls of sendPushNotification made (history)
    lastPush,       \* the latest sendPushNotification call in detail (history)
    marked,         \* status updates made by the sweeps (history)
    fired,          \* appointment reminders fired (history)
    sessions,       \* table Sessions: sequence of rows
    authLog         \* requests answered by the auth routes and the
                    \* middleware (history)

vars == <<now, appointments, apptReminders, reminders, doses, notifications,
          pushSubs, pc, cands, idx, runNo, runs, pushes, lastPush, marked,
          fired, sessions, authLog>>

----------------------------------------------------------------------------
(* Bounds of the model *)

\* last day the clock reaches
MaxDay == 5
\* task runs started in one behaviour
MaxRuns == 2
\* push subscription rows
MaxSubs == 3
\* appointment rows
MaxAppts == 2
\* medication reminder rows
MaxRems == 3
\* direct sendPushNotification calls (POST /test, POST /subscribe)
MaxCalls == 2
\* last day the clock reaches where medication reminders are checked
MaxMedDay == 1
\* dose records
MaxDoses == 1
\* database statements failing within one sendPushNotification call
MaxFaults == 1
\* task runs or push calls followed in one behaviour where statements may fail
MaxFaultRuns == 1

----------------------------------------------------------------------------
(* Program constants *)

\* part_000:276  ADDTIME(TIME(mr.Reminder_Time), '00:15:00')
MissedLagMinutes == 15
\* part_001:230  daysUntil === 0 && getHours() === 8
SameDayHour == 8
\* part_001:234  daysUntil === 1 && getHours() === 18
NextDayHour == 18
\* part_001:238  daysUntil === 3 && getHours() === 9
ThreeDaysHour == 9
\* part_001:207  DATE_ADD(CURDATE(), INTERVAL 3 DAY)
UpcomingWindowDays == 3
\* part_001:335  DATE_SUB(CURDATE(), INTERVAL 1 DAY)
OverdueWindowDays == 1
\* part_002:65   error.statusCode === 410
GoneStatusCode == 410

----------------------------------------------------------------------------
(* Time *)

HMS(h, m, s) == (h * 60 + m) * 60 + s
SecondsPerDay == HMS(24, 0, 0)

\* new Date().getHours()
Hour(t) == t.sec \div HMS(1, 0, 0)

\* seconds since day 0, 00:00:00
Stamp(d, s) == d * SecondsPerDay + s

Min(S) == CHOOSE x \in S : \A y \in S : x <= y

\* the clock moves to the next instant of `instants`, on this day or the
\* next.  A task run takes no time on this clock: it moves between runs.
Advance(instants, lastDay) ==
    /\ \A p \in DOMAIN pc : pc[p] = "idle"
    /\ LET later == {s \in instants : s > now.sec}
       IN  IF later # {}
           THEN now' = [day |-> now.day, sec |-> Min(later)]
           ELSE /\ now.day < lastDay
                /\ now' = [day |-> now.day + 1, sec |-> Min(instants)]

----------------------------------------------------------------------------
(* Users, patients *)

Users == {"u1", "u2"}
Patients == {"p1", "p2"}
NoOne == "none"

\* Patients.User_ID
UserOfPatient(p) == IF p = "p1" THEN "u1" ELSE IF p = "p2" THEN "u2" ELSE NoOne

\* a set of integers as the ascending sequence
RECURSIVE Ascending(_)
Ascending(S) ==
    IF S = {} THEN <<>> ELSE <<Min(S)>> \o Ascending(S \ {Min(S)})

----------------------------------------------------------------------------
(* Push delivery dispatch: services/pushNotification.js *)

SubIds == 1..MaxSubs

\* the user a subscription row belongs to (Push_Subscriptions.User_ID)
UserOfSub(s) == IF s % 3 = 0 THEN "u2" ELSE "u1"

NoTime == [day |-> -1, sec |-> 0]

\* what webpush.sendNotification answers for one endpoint: 201 delivered,
\* 410 endpoint gone (rejects, error.statusCode = 410), 500 any other
\* rejection
DeliveredStatus == 201
DeliveryStatuses == {DeliveredStatus, GoneStatusCode, 500}

\* database statements of sendPushNotification that may fail, as <<statement, sub>>
PushFaultPoints ==
    {<<"select", 0>>, <<"log", 0>>}
        \cup {<<k, s>> : k \in {"lastsent", "deactivate"}, s \in SubIds}

\* SELECT * FROM Push_Subscriptions WHERE User_ID = ? AND Is_Active = 1
ActiveSubscriptions(subs, u) ==
    Ascending({s \in SubIds : subs[s].exists /\ subs[s].user = u /\ subs[s].active})

\* a Notifications row; subject and run are history (the entity the message
\* text is about, the task run that wrote it)
NotificationRow(recipient, type, priority, status, subject, run) ==
    [recipient |-> recipient, type |-> type, priority |-> priority,
     status |-> status, day |-> now.day, subject |-> subject, run |-> run]

\* the INSERT with the status fixed to 'sent'
logNotificationSent(notifs, u, status, fails) ==
    IF fails THEN notifs
    ELSE Append(notifs, NotificationRow(u, "push_notification", "medium", "sent", 0, 0))

\* logNotification: the INSERT, its failure swallowed by the function's catch
logNotification(notifs, u, status, fails) ==
    IF fails THEN notifs
    ELSE Append(notifs, NotificationRow(u, "push_notification", "medium", status, 0, 0))

\* one iteration of `for (const subscription of subscriptions)`: the inner
\* try (send, sent++, UPDATE Last_Sent_At) and its catch (failed++, UPDATE
\* Is_Active = 0 when statusCode is 410).  A failing statement inside the try
\* lands in the same catch with no statusCode; a failing statement inside the
\* catch leaves the loop (thrown).
DeliverBreaks(st, s, out, F) ==
    LET st1 == [st EXCEPT !.attempted = @ \cup {s}]
    IN  IF out[s] = DeliveredStatus
        THEN [st1 EXCEPT !.sent = @ + 1, !.subs[s].lastSent = now]
        ELSE IF out[s] = GoneStatusCode
        THEN [st1 EXCEPT !.failed = @ + 1, !.subs[s].active = FALSE,
                         !.thrown = TRUE]
        ELSE [st1 EXCEPT !.failed = @ + 1]

\* the catch deactivating the subscription on every rejection
DeliverDeactivatesOnAnyError(st, s, out, F) ==
    LET st1 == [st EXCEPT !.attempted = @ \cup {s}]
    IN  IF out[s] = DeliveredStatus
        THEN IF <<"lastsent", s>> \in F
             THEN [st1 EXCEPT !.sent = @ + 1, !.failed = @ + 1]
             ELSE [st1 EXCEPT !.sent = @ + 1, !.subs[s].lastSent = now]
        ELSE IF <<"deactivate", s>> \in F
        THEN [st1 EXCEPT !.failed = @ + 1, !.thrown = TRUE]
        ELSE [st1 EXCEPT !.failed = @ + 1, !.subs[s].active = FALSE]

Deliver(st, s, out, F) ==
    LET st1 == [st EXCEPT !.attempted = @ \cup {s}]
    IN  IF out[s] = DeliveredStatus
        THEN IF <<"lastsent", s>> \in F
             THEN [st1 EXCEPT !.sent = @ + 1, !.failed = @ + 1]
             ELSE [st1 EXCEPT !.sent = @ + 1, !.subs[s].lastSent = now]
        ELSE IF out[s] = GoneStatusCode
        THEN IF <<"deactivate", s>> \in F
             THEN [st1 EXCEPT !.failed = @ + 1, !.thrown = TRUE]
             ELSE [st1 EXCEPT !.failed = @ + 1, !.subs[s].active = FALSE]
        ELSE [st1 EXCEPT !.failed = @ + 1]

RECURSIVE DeliverAll(_, _, _, _)
DeliverAll(st, todo, out, F) ==
    IF todo = <<>> \/ st.thrown THEN st
    ELSE DeliverAll(Deliver(st, Head(todo), out, F), Tail(todo), out, F)

\* the outer catch of sendPushNotification: return { sent: 0, failed: 1 }
OuterCatchRethrows(r) == r

OuterCatch(r) ==
    IF r.outcome = "raised"
    THEN [r EXCEPT !.outcome = "returned", !.sent = 0, !.failed = 1]
    ELSE r

\* the function without its early return for an empty result
sendPushNotificationNoEarlyReturn(subs, notifs, u, out, F) ==
    LET sel == IF <<"select", 0>> \in F THEN <<>> ELSE ActiveSubscriptions(subs, u)
        st0 == [subs |-> subs, sent |-> 0, failed |-> 0, attempted |-> {},
                thrown |-> FALSE]
        st  == DeliverAll(st0, sel, out, F)
        res(o, sb, nt, sn, fl) ==
            [outcome |-> o, subs |-> sb, notifs |-> nt, sent |-> sn,
             failed |-> fl, selected |-> sel, attempted |-> st.attempted]
        body ==
            IF <<"select", 0>> \in F THEN res("raised", subs, notifs, 0, 0)
            ELSE IF st.thrown THEN res("raised", st.subs, notifs, st.sent, st.failed)
            ELSE res("returned", st.subs,
                     logNotification(notifs, u,
                                     IF st.sent > 0 THEN "sent" ELSE "failed",
                                     <<"log", 0>> \in F),
                     st.sent, st.failed)
    IN  OuterCatch(body)

\* sendPushNotification(userId, ...) with the gateway answering out[s] for
\* subscription s and the statements in F failing.  The result carries the
\* tables as the call leaves them.
sendPushNotification(subs, notifs, u, out, F) ==
    LET sel == IF <<"select", 0>> \in F THEN <<>> ELSE ActiveSubscriptions(subs, u)
        st0 == [subs |-> subs, sent |-> 0, failed |-> 0, attempted |-> {},
                thrown |-> FALSE]
        st  == DeliverAll(st0, sel, out, F)
        res(o, sb, nt, sn, fl) ==
            [outcome |-> o, subs |-> sb, notifs |-> nt, sent |-> sn,
             failed |-> fl, selected |-> sel, attempted |-> st.attempted]
        body ==
            IF <<"select", 0>> \in F THEN res("raised", subs, notifs, 0, 0)
            ELSE IF sel = <<>> THEN res("returned", subs, notifs, 0, 0)
            ELSE IF st.thrown THEN res("raised", st.subs, notifs, st.sent, st.failed)
            ELSE res("returned", st.subs,
                     logNotification(notifs, u,
                                     IF st.sent > 0 THEN "sent" ELSE "failed",
                                     <<"log", 0>> \in F),
                     st.sent, st.failed)
    IN  OuterCatch(body)

\* a row of the history of calls
PushCall(u, kind, subject, run, r) ==
    [user |-> u, kind |-> kind, subject |-> subject, run |-> run,
     day |-> now.day, outcome |-> r.outcome, sent |-> r.sent, failed |-> r.failed]

NoPush == [user |-> NoOne, before |-> {}, out |-> [s \in SubIds |-> DeliveredStatus],
           faults |-> {}, outcome |-> "none", sent |-> 0, failed |-> 0,
           selected |-> <<>>, attempted |-> {}, after |-> {}]

\* the detail of one call: who was active before and after, what the gateway
\* answered, what failed, what the call returned
PushDetail(subs, u, out, F, r) ==
    [user |-> u,
     before |-> {s \in SubIds : subs[s].exists /\ subs[s].active},
     out |-> out, faults |-> F, outcome |-> r.outcome, sent |-> r.sent,
     failed |-> r.failed, selected |-> r.selected, attempted |-> r.attempted,
     after |-> {s \in SubIds : r.subs[s].exists /\ r.subs[s].active}]

----------------------------------------------------------------------------
(* Task instances *)

\* two instances of the hourly appointment check (two scheduler processes,
\* or a run that outlasts its period), one of every other task
UpcomingApptProcs == {"ua1", "ua2"}
OverdueApptProcs == {"oa1"}
MissedMedProcs == {"mm1"}
UpcomingMedProcs == {"um1"}
Procs == UpcomingApptProcs \cup OverdueApptProcs \cup MissedMedProcs
            \cup UpcomingMedProcs

\* a run begins: the query returned `rows`
Begin(p, rows, first) ==
    /\ pc[p] = "idle"
    /\ runs < MaxRuns
    /\ runs' = runs + 1
    /\ runNo' = [runNo EXCEPT ![p] = runs + 1]
    /\ cands' = [cands EXCEPT ![p] = rows]
    /\ idx' = [idx EXCEPT ![p] = 1]
    /\ pc' = [pc EXCEPT ![p] = first]

\* the query itself threw: the task's catch logs it, nothing is processed
BeginFails(p) == Begin(p, <<>>, "failed")

\* the task function returns ("done": the loop ended; "failed": its catch
\* logged an error); its locals are gone
Return(p) ==
    /\ pc[p] \in {"done", "failed"}
    /\ pc' = [pc EXCEPT ![p] = "idle"]
    /\ cands' = [cands EXCEPT ![p] = <<>>]
    /\ idx' = [idx EXCEPT ![p] = 1]
    /\ runNo' = [runNo EXCEPT ![p] = 0]
    /\ UNCHANGED <<now, appointments, apptReminders, reminders, doses,
                   notifications, pushSubs, runs, pushes, lastPush, marked, fired,
                   sessions, authLog>>

\* a set of rows as the sequence in ascending order of their ord field
RECURSIVE InOrder(_)
InOrder(S) ==
    IF S = {} THEN <<>>
    ELSE LET m == CHOOSE x \in S : \A y \in S : x.ord <= y.ord
         IN  <<m>> \o InOrder(S \ {m})

----------------------------------------------------------------------------
(* Appointment reminders: services/appointmentScheduler.js *)

ApptIds == 1..MaxAppts

\* Appointments.Patient_ID
PatientOfAppt(a) == IF a % 2 = 1 THEN "p1" ELSE "p2"

\* DATEDIFF(a.Appointment_Date, CURDATE())
DaysUntil(a) == appointments[a].date - now.day

\* the CASE of the NOT EXISTS subquery
CaseReminderType(d) ==
    IF d = 0 THEN "same_day"
    ELSE IF d = 1 THEN "next_day"
    ELSE IF d = 3 THEN "three_days"
    ELSE "other"

\* NOT EXISTS (SELECT 1 FROM Appointment_Reminders ar WHERE ...)
LoggedToday(a, type) ==
    \E i \in 1..Len(apptReminders) :
        /\ apptReminders[i].appt = a
        /\ apptReminders[i].type = type
        /\ apptReminders[i].day = now.day

\* a row of the result (ord: its place under ORDER BY a.Appointment_Date,
\* a.Appointment_Time, then by id), with the facts of the moment of the query kept as
\* history: qday the day of the query, seenHour the hour at which the loop
\* looked at the row (-1 before), fired the type the loop fired for it
UpcomingRow(a) ==
    [id |-> a, patient |-> appointments[a].patient,
     user |-> UserOfPatient(appointments[a].patient),
     date |-> appointments[a].date, time |-> appointments[a].time,
     days_until |-> DaysUntil(a),
     ord |-> Stamp(appointments[a].date, appointments[a].time) * (MaxAppts + 1) + a,
     qday |-> now.day, seenHour |-> -1, fired |-> "none"]

\* the SELECT without its NOT EXISTS clause
UpcomingAppointmentsUnguarded ==
    InOrder({UpcomingRow(a) : a \in
                {a \in ApptIds :
                    /\ appointments[a].status = "Scheduled"
                    /\ appointments[a].date >= now.day
                    /\ appointments[a].date <= now.day + UpcomingWindowDays}})

\* the SELECT of checkUpcomingAppointments
UpcomingAppointments ==
    InOrder({UpcomingRow(a) : a \in
                {a \in ApptIds :
                    /\ appointments[a].status = "Scheduled"
                    /\ appointments[a].date >= now.day
                    /\ appointments[a].date <= now.day + UpcomingWindowDays
                    /\ ~LoggedToday(a, CaseReminderType(DaysUntil(a)))}})

\* the chain with the same-day branch not gated on the hour
ReminderTypeAtUngated(daysUntil, hour) ==
    IF daysUntil = 0 THEN "same_day"
    ELSE IF daysUntil = 1 /\ hour = NextDayHour THEN "next_day"
    ELSE IF daysUntil = 3 /\ hour = ThreeDaysHour THEN "three_days"
    ELSE "none"

\* the if / else-if chain of the loop: the type to send, "none" for
\* shouldSend = false
ReminderTypeAt(daysUntil, hour) ==
    IF daysUntil = 0 /\ hour = SameDayHour THEN "same_day"
    ELSE IF daysUntil = 1 /\ hour = NextDayHour THEN "next_day"
    ELSE IF daysUntil = 3 /\ hour = ThreeDaysHour THEN "three_days"
    ELSE "none"

\* sendAppointmentReminder / sendMedicationReminder: SELECT User_ID FROM
\* Patients, then sendPushNotification; every failure is swallowed by the
\* function's catch.  lookupFails: the SELECT threw.
SendReminder(p, patient, kind, subject, out, F, lookupFails) ==
    IF lookupFails \/ patient \notin Patients
    THEN UNCHANGED <<pushSubs, notifications, pushes, lastPush, sessions, authLog>>
    ELSE LET u == UserOfPatient(patient)
             r == sendPushNotification(pushSubs, notifications, u, out, F)
         IN  /\ pushSubs' = r.subs
             /\ notifications' = r.notifs
             /\ pushes' = Append(pushes, PushCall(u, kind, subject, runNo[p], r))
             /\ UNCHANGED lastPush

\* the loop passes, without awaiting, over the rows it does not fire for:
\* the index of the first row from idx on that fires at this hour, 0 if none
NextToFire(p) ==
    LET js == {j \in idx[p]..Len(cands[p]) :
                 ReminderTypeAt(cands[p][j].days_until, Hour(now)) # "none"}
    IN  IF js = {} THEN 0 ELSE Min(js)

\* the rows idx..j stamped with the hour at which the loop looked at them
Seen(p, j, type) ==
    [i \in 1..Len(cands[p]) |->
        IF i >= idx[p] /\ i <= j
        THEN [cands[p][i] EXCEPT !.seenHour = Hour(now),
                                 !.fired = IF i = j THEN type ELSE "none"]
        ELSE cands[p][i]]

UA_Query(p) ==
    /\ Begin(p, UpcomingAppointments, "loop")
    /\ UNCHANGED <<now, appointments, apptReminders, reminders, doses,
                   notifications, pushSubs, pushes, lastPush, marked, fired,
                   sessions, authLog>>

UA_QueryFails(p) ==
    /\ BeginFails(p)
    /\ UNCHANGED <<now, appointments, apptReminders, reminders, doses,
                   notifications, pushSubs, pushes, lastPush, marked, fired,
                   sessions, authLog>>

\* the loop up to and including sendAppointmentReminder of the next row that
\* fires, or to the end of the rows
UA_Loop(p, out, F, lookupFails) ==
    /\ pc[p] = "loop"
    /\ LET j == NextToFire(p)
       IN  IF j = 0
           THEN /\ cands' = [cands EXCEPT ![p] = Seen(p, Len(cands[p]), "none")]
                /\ idx' = [idx EXCEPT ![p] = Len(cands[p]) + 1]
                /\ pc' = [pc EXCEPT ![p] = "done"]
                /\ UNCHANGED <<pushSubs, notifications, pushes, lastPush, fired,
                               sessions, authLog>>
           ELSE LET c == cands[p][j]
                    type == ReminderTypeAt(c.days_until, Hour(now))
                IN  /\ cands' = [cands EXCEPT ![p] = Seen(p, j, type)]
                    /\ idx' = [idx EXCEPT ![p] = j]
                    /\ pc' = [pc EXCEPT ![p] = "notify"]
                    /\ fired' = Append(fired,
                          [appt |-> c.id, type |-> type, day |-> now.day,
                           hour |-> Hour(now), run |-> runNo[p]])
                    /\ SendReminder(p, c.patient, "appointment_reminder", c.id,
                                    out, F, lookupFails)
    /\ UNCHANGED <<now, appointments, apptReminders, reminders, doses, runNo,
                   runs, marked, sessions, authLog>>

\* the INSERT made only when the push of this iteration reached a device
UA_NotifyIfDelivered(p, fails) ==
    /\ pc[p] = "notify"
    /\ notifications' =
          IF fails \/ ~\E i \in 1..Len(pushes) :
                          /\ pushes[i].run = runNo[p]
                          /\ pushes[i].subject = cands[p][idx[p]].id
                          /\ pushes[i].sent > 0
          THEN notifications
          ELSE Append(notifications,
                      NotificationRow(cands[p][idx[p]].user, "appointment_reminder",
                                      "high", "Unread", cands[p][idx[p]].id, runNo[p]))
    /\ pc' = [pc EXCEPT ![p] = "log"]
    /\ UNCHANGED <<now, appointments, apptReminders, reminders, doses, pushSubs,
                   cands, idx, runNo, runs, pushes, lastPush, marked, fired,
                   sessions, authLog>>

\* createAppointmentNotification: the INSERT, its failure swallowed
UA_Notify(p, fails) ==
    /\ pc[p] = "notify"
    /\ notifications' =
          IF fails THEN notifications
          ELSE Append(notifications,
                      NotificationRow(cands[p][idx[p]].user, "appointment_reminder",
                                      "high", "Unread", cands[p][idx[p]].id, runNo[p]))
    /\ pc' = [pc EXCEPT ![p] = "log"]
    /\ UNCHANGED <<now, appointments, apptReminders, reminders, doses, pushSubs,
                   cands, idx, runNo, runs, pushes, lastPush, marked, fired,
                   sessions, authLog>>

\* the iteration without its call of logAppointmentReminder
UA_LogSkipped(p, fails) ==
    /\ pc[p] = "log"
    /\ idx' = [idx EXCEPT ![p] = @ + 1]
    /\ pc' = [pc EXCEPT ![p] = "loop"]
    /\ UNCHANGED <<now, appointments, apptReminders, reminders, doses,
                   notifications, pushSubs, cands, runNo, runs, pushes, lastPush,
                   marked, fired, sessions, authLog>>

\* logAppointmentReminder: the INSERT with Sent_At = NOW(), its failure
\* swallowed; then remindersSent++ and the next iteration
UA_Log(p, fails) ==
    /\ pc[p] = "log"
    /\ apptReminders' =
          IF fails THEN apptReminders
          ELSE Append(apptReminders,
                      [appt |-> cands[p][idx[p]].id,
                       type |-> cands[p][idx[p]].fired,
                       day |-> now.day, status |-> "Sent", run |-> runNo[p]])
    /\ idx' = [idx EXCEPT ![p] = @ + 1]
    /\ pc' = [pc EXCEPT ![p] = "loop"]
    /\ UNCHANGED <<now, appointments, reminders, doses, notifications, pushSubs,
                   cands, runNo, runs, pushes, lastPush, marked, fired,
                   sessions, authLog>>

----------------------------------------------------------------------------
(* Overdue sweep: checkOverdueAppointments *)

\* a row of the result; overdueBy (seconds between the appointment and the
\* NOW() of the query) and qday are history
OverdueRow(a) ==
    [id |-> a, user |-> UserOfPatient(appointments[a].patient),
     date |-> appointments[a].date, time |-> appointments[a].time,
     ord |-> a, qday |-> now.day,
     overdueBy |-> Stamp(now.day, now.sec)
                     - Stamp(appointments[a].date, appointments[a].time)]

\* the SELECT without its lower bound on Appointment_Date
OverdueAppointmentsUnbounded ==
    InOrder({OverdueRow(a) : a \in
                {a \in ApptIds :
                    /\ appointments[a].status = "Scheduled"
                    /\ Stamp(appointments[a].date, appointments[a].time)
                          < Stamp(now.day, now.sec)}})

\* the SELECT of checkOverdueAppointments:
\*   CONCAT(a.Appointment_Date, ' ', a.Appointment_Time) < NOW()
\*   AND a.Appointment_Date >= DATE_SUB(CURDATE(), INTERVAL 1 DAY)
OverdueAppointments ==
    InOrder({OverdueRow(a) : a \in
                {a \in ApptIds :
                    /\ appointments[a].status = "Scheduled"
                    /\ Stamp(appointments[a].date, appointments[a].time)
                          < Stamp(now.day, now.sec)
                    /\ appointments[a].date >= now.day - OverdueWindowDays}})

\* after the statements of one row: the next row, or the end of the run
NextRow(p, first) ==
    /\ idx' = [idx EXCEPT ![p] = @ + 1]
    /\ pc' = [pc EXCEPT ![p] = IF idx[p] < Len(cands[p]) THEN first ELSE "done"]

\* a statement outside the helper functions threw: the task's own catch
\* ends the run where it is
Abort(p) ==
    /\ pc' = [pc EXCEPT ![p] = "failed"]
    /\ UNCHANGED idx

OA_Query(p) ==
    /\ Begin(p, OverdueAppointments,
             IF OverdueAppointments = <<>> THEN "done" ELSE "update")
    /\ UNCHANGED <<now, appointments, apptReminders, reminders, doses,
                   notifications, pushSubs, pushes, lastPush, marked, fired,
                   sessions, authLog>>

OA_QueryFails(p) ==
    /\ BeginFails(p)
    /\ UNCHANGED <<now, appointments, apptReminders, reminders, doses,
                   notifications, pushSubs, pushes, lastPush, marked, fired,
                   sessions, authLog>>

\* UPDATE Appointments SET Status = "Missed" WHERE ID = ?
OA_Update(p, fails) ==
    /\ pc[p] = "update"
    /\ LET c == cands[p][idx[p]]
       IN  IF fails
           THEN /\ Abort(p)
                /\ UNCHANGED <<appointments, marked, sessions, authLog>>
           ELSE /\ appointments' = [appointments EXCEPT ![c.id].status = "Missed"]
                /\ marked' = Append(marked,
                      [table |-> "Appointments", id |-> c.id,
                       from |-> appointments[c.id].status, run |-> runNo[p],
                       row |-> c])
                /\ pc' = [pc EXCEPT ![p] = "notify"]
                /\ UNCHANGED idx
    /\ UNCHANGED <<now, apptReminders, reminders, doses, notifications, pushSubs,
                   cands, runNo, runs, pushes, lastPush, fired,
                   sessions, authLog>>

\* the iteration without its INSERT INTO Notifications
OA_NotifySkipped(p, fails) ==
    /\ pc[p] = "notify"
    /\ IF fails THEN Abort(p) ELSE NextRow(p, "update")
    /\ UNCHANGED <<now, appointments, apptReminders, reminders, doses, pushSubs,
                   notifications, cands, runNo, runs, pushes, lastPush, marked,
                   fired, sessions, authLog>>

\* INSERT INTO Notifications ... 'missed_appointment'
OA_Notify(p, fails) ==
    /\ pc[p] = "notify"
    /\ LET c == cands[p][idx[p]]
       IN  IF fails
           THEN /\ Abort(p)
                /\ UNCHANGED notifications
           ELSE /\ notifications' =
                      Append(notifications,
                             NotificationRow(c.user, "missed_appointment", "high",
                                             "Unread", c.id, runNo[p]))
                /\ NextRow(p, "update")
    /\ UNCHANGED <<now, appointments, apptReminders, reminders, doses, pushSubs,
                   cands, runNo, runs, pushes, lastPush, marked, fired,
                   sessions, authLog>>

----------------------------------------------------------------------------
(* Medication reminders: routes/medication.js *)

RemIds == 1..MaxRems

\* Medication_Reminders.Patient_Medication_ID: two reminders per medication
PmOfRem(r) == (r + 1) \div 2
PatMeds == {PmOfRem(r) : r \in RemIds}

\* a Patient_Medication_ID without a Patient_Medications row
NoPatMed == 0

\* Patient_Medications.Patient_ID (NULL under the LEFT JOIN when the row is
\* missing)
PatientOfPm(m) ==
    IF m \notin PatMeds THEN NoOne ELSE IF m % 2 = 1 THEN "p1" ELSE "p2"

DoseStatuses == {"Taken", "Missed"}

\* EXISTS (SELECT 1 FROM Medication_Doses md WHERE md.Patient_Medication_ID = ?
\*         AND DATE(md.Scheduled_Time) = CURDATE() AND md.Status = 'Taken')
TakenToday(m) ==
    \E d \in doses : d.pm = m /\ d.day = now.day /\ d.status = "Taken"

\* a row of either medication query; lateBy, wasPending, takenToday and qday
\* are history: the facts at the moment of the query
MedRow(r) ==
    [id |-> r, patient |-> PatientOfPm(reminders[r].pm),
     user |-> UserOfPatient(PatientOfPm(reminders[r].pm)),
     pm |-> reminders[r].pm, time |-> reminders[r].time, ord |-> r,
     qday |-> now.day, lateBy |-> now.sec - reminders[r].time,
     wasPending |-> reminders[r].status = "Pending",
     takenToday |-> TakenToday(reminders[r].pm)]

\* the SELECT with >= for > in the lag test
MissedMedicationsAtLag ==
    InOrder({MedRow(r) : r \in
                {r \in RemIds :
                    /\ reminders[r].status = "Pending"
                    /\ ~TakenToday(reminders[r].pm)
                    /\ now.sec >= reminders[r].time + MissedLagMinutes * 60}})

\* the SELECT without its NOT EXISTS clause
MissedMedicationsIgnoringDoses ==
    InOrder({MedRow(r) : r \in
                {r \in RemIds :
                    /\ reminders[r].status = "Pending"
                    /\ now.sec > reminders[r].time + MissedLagMinutes * 60}})

\* the SELECT without its test of Status
MissedMedicationsAnyStatus ==
    InOrder({MedRow(r) : r \in
                {r \in RemIds :
                    /\ ~TakenToday(reminders[r].pm)
                    /\ now.sec > reminders[r].time + MissedLagMinutes * 60}})

\* the SELECT of checkMissedMedications:
\*   mr.Status = 'Pending' AND NOT EXISTS (taken today)
\*   AND TIME(NOW()) > ADDTIME(TIME(mr.Reminder_Time), '00:15:00')
MissedMedications ==
    InOrder({MedRow(r) : r \in
                {r \in RemIds :
                    /\ reminders[r].status = "Pending"
                    /\ ~TakenToday(reminders[r].pm)
                    /\ now.sec > reminders[r].time + MissedLagMinutes * 60}})

\* the SELECT of checkUpcomingMedications:
\*   mr.Status = 'Pending' AND TIME(mr.Reminder_Time) = TIME(NOW())
\*   AND NOT EXISTS (taken today)
UpcomingMedications ==
    InOrder({MedRow(r) : r \in
                {r \in RemIds :
                    /\ reminders[r].status = "Pending"
                    /\ reminders[r].time = now.sec
                    /\ ~TakenToday(reminders[r].pm)}})

MM_Query(p) ==
    /\ Begin(p, MissedMedications,
             IF MissedMedications = <<>> THEN "done" ELSE "send")
    /\ UNCHANGED <<now, appointments, apptReminders, reminders, doses,
                   notifications, pushSubs, pushes, lastPush, marked, fired,
                   sessions, authLog>>

MM_QueryFails(p) ==
    /\ BeginFails(p)
    /\ UNCHANGED <<now, appointments, apptReminders, reminders, doses,
                   notifications, pushSubs, pushes, lastPush, marked, fired,
                   sessions, authLog>>

\* await sendMedicationReminder(missed.Patient_ID, ...)
MM_Send(p, out, F, lookupFails) ==
    /\ pc[p] = "send"
    /\ SendReminder(p, cands[p][idx[p]].patient, "medication_reminder",
                    cands[p][idx[p]].id, out, F, lookupFails)
    /\ pc' = [pc EXCEPT ![p] = "notify"]
    /\ UNCHANGED <<now, appointments, apptReminders, reminders, doses, cands, idx,
                   runNo, runs, marked, fired, sessions, authLog>>

\* the call without its last argument: priority defaults to 'medium'
MM_NotifyDefaultPriority(p, fails) ==
    /\ pc[p] = "notify"
    /\ notifications' =
          IF fails THEN notifications
          ELSE Append(notifications,
                      NotificationRow(cands[p][idx[p]].user, "missed_medication",
                                      "medium", "Unread", cands[p][idx[p]].id,
                                      runNo[p]))
    /\ pc' = [pc EXCEPT ![p] = "update"]
    /\ UNCHANGED <<now, appointments, apptReminders, reminders, doses, pushSubs,
                   cands, idx, runNo, runs, pushes, lastPush, marked, fired,
                   sessions, authLog>>

\* createMedicationNotification(User_ID, 'missed_medication', ..., 'high'):
\* the INSERT, its failure swallowed
MM_Notify(p, fails) ==
    /\ pc[p] = "notify"
    /\ notifications' =
          IF fails THEN notifications
          ELSE Append(notifications,
                      NotificationRow(cands[p][idx[p]].user, "missed_medication",
                                      "high", "Unread", cands[p][idx[p]].id, runNo[p]))
    /\ pc' = [pc EXCEPT ![p] = "update"]
    /\ UNCHANGED <<now, appointments, apptReminders, reminders, doses, pushSubs,
                   cands, idx, runNo, runs, pushes, lastPush, marked, fired,
                   sessions, authLog>>

\* UPDATE Medication_Reminders SET Status = "Missed" WHERE ID = ?
MM_Update(p, fails) ==
    /\ pc[p] = "update"
    /\ LET c == cands[p][idx[p]]
       IN  IF fails
           THEN /\ Abort(p)
                /\ UNCHANGED <<reminders, marked, sessions, authLog>>
           ELSE /\ reminders' = [reminders EXCEPT ![c.id].status = "Missed"]
                /\ marked' = Append(marked,
                      [table |-> "Medication_Reminders", id |-> c.id,
                       from |-> reminders[c.id].status, run |-> runNo[p],
                       row |-> c])
                /\ NextRow(p, "send")
    /\ UNCHANGED <<now, appointments, apptReminders, doses, notifications,
                   pushSubs, cands, runNo, runs, pushes, lastPush, fired,
                   sessions, authLog>>

UM_Query(p) ==
    /\ Begin(p, UpcomingMedications,
             IF UpcomingMedications = <<>> THEN "done" ELSE "send")
    /\ UNCHANGED <<now, appointments, apptReminders, reminders, doses,
                   notifications, pushSubs, pushes, lastPush, marked, fired,
                   sessions, authLog>>

UM_QueryFails(p) ==
    /\ BeginFails(p)
    /\ UNCHANGED <<now, appointments, apptReminders, reminders, doses,
                   notifications, pushSubs, pushes, lastPush, marked, fired,
                   sessions, authLog>>

\* the loop body followed by an UPDATE of the reminder to Sent
UM_SendMarksSent(p, out, F, lookupFails) ==
    /\ pc[p] = "send"
    /\ SendReminder(p, cands[p][idx[p]].patient, "medication_reminder",
                    cands[p][idx[p]].id, out, F, lookupFails)
    /\ NextRow(p, "send")
    /\ reminders' = [reminders EXCEPT ![cands[p][idx[p]].id].status = "Sent"]
    /\ UNCHANGED <<now, appointments, apptReminders, doses, cands,
                   runNo, runs, marked, fired, sessions, authLog>>

\* await sendMedicationReminder(med.Patient_ID, ...), the whole loop body
UM_Send(p, out, F, lookupFails) ==
    /\ pc[p] = "send"
    /\ SendReminder(p, cands[p][idx[p]].patient, "medication_reminder",
                    cands[p][idx[p]].id, out, F, lookupFails)
    /\ NextRow(p, "send")
    /\ UNCHANGED <<now, appointments, apptReminders, reminders, doses, cands,
                   runNo, runs, marked, fired, sessions, authLog>>

\* POST /usage by `patient` (at: history, the number of task runs started
\* before the dose was recorded): INSERT INTO Medication_Doses (Scheduled_Time = NOW()), then,
\* with a reminder_id (r # 0), UPDATE Medication_Reminders SET Status = 'Sent'
\* WHERE ID = ? AND Patient_ID = ?
RecordUsage(patient, m, r, status) ==
    /\ Cardinality(doses) < MaxDoses
    /\ doses' = doses \cup {[pm |-> m, day |-> now.day, status |-> status,
                             at |-> runs]}
    /\ reminders' =
          IF r \in RemIds /\ reminders[r].patient = patient
          THEN [reminders EXCEPT ![r].status = "Sent"]
          ELSE reminders
    /\ UNCHANGED <<now, appointments, apptReminders, notifications, pushSubs, pc,
                   cands, idx, runNo, runs, pushes, lastPush, marked, fired,
                   sessions, authLog>>

----------------------------------------------------------------------------
(* Initial states *)

\* the appointments are 3 days ahead of day 0, Scheduled or Cancelled
ApptTimes == {HMS(10, 0, 0), HMS(14, 0, 0)}
InitAppointments ==
    {f \in [ApptIds -> [patient : Patients,
                        date : {UpcomingWindowDays, UpcomingWindowDays + 1},
                        time : ApptTimes, status : {"Scheduled", "Cancelled"}]] :
        \A a \in ApptIds :
            /\ f[a].patient = PatientOfAppt(a)
            /\ f[a].time = IF a = 1 THEN HMS(14, 0, 0) ELSE HMS(10, 0, 0)
            /\ a = 1 => f[a].date = UpcomingWindowDays /\ f[a].status = "Scheduled"}

\* reminders are created Pending (POST /reminders)
RemTimes == {HMS(8, 0, 0), HMS(23, 50, 0)}
InitReminders ==
    {f \in [RemIds -> [patient : Patients, pm : PatMeds, time : RemTimes,
                       status : {"Pending"}]] :
        \A r \in RemIds : /\ f[r].pm = PmOfRem(r)
                          /\ f[r].patient = PatientOfPm(PmOfRem(r))
                          /\ r % 2 = 1 => f[r].time = HMS(8, 0, 0)}

SubRow(s, exists, active) ==
    [exists |-> exists, user |-> UserOfSub(s), active |-> active,
     lastSent |-> NoTime]

\* every row absent, active or deactivated
AnySubscriptions ==
    {f \in [SubIds -> [exists : BOOLEAN, user : Users, active : BOOLEAN,
                       lastSent : {NoTime}]] :
        \A s \in SubIds : /\ f[s].user = UserOfSub(s)
                          /\ f[s].active => f[s].exists}

\* only the first user's first endpoint subscribed
OneSubscription == {[s \in SubIds |-> SubRow(s, s = 1, s = 1)]}

InitWith(appts, rems, subs) ==
    /\ now = [day |-> 0, sec |-> 0]
    /\ appointments \in appts
    /\ reminders \in rems
    /\ pushSubs \in subs
    /\ apptReminders = <<>>
    /\ doses = {}
    /\ notifications = <<>>
    /\ pc = [p \in Procs |-> "idle"]
    /\ cands = [p \in Procs |-> <<>>]
    /\ idx = [p \in Procs |-> 1]
    /\ runNo = [p \in Procs |-> 0]
    /\ runs = 0
    /\ pushes = <<>>
    /\ lastPush = NoPush
    /\ marked = <<>>
    /\ fired = <<>>
    /\ sessions = <<>>
    /\ authLog = <<>>

\* one fixed row per table, for the specifications that are not about it
SomeAppointments == {CHOOSE f \in InitAppointments : TRUE}
SomeReminders == {CHOOSE f \in InitReminders : TRUE}

\* gateway answers that differ only on the subscriptions a call can reach
Answers ==
    {out \in [SubIds -> DeliveryStatuses] :
        \A s \in SubIds :
            ~(pushSubs[s].exists /\ pushSubs[s].active) => out[s] = DeliveredStatus}

----------------------------------------------------------------------------
(* Appointment reminders with every statement succeeding; the hourly check  *)
(* may overlap with itself: the second instance starts while the first is   *)
(* inside a run.                                                            *)

FiringInstants ==
    {HMS(h, 0, 0) : h \in {0, SameDayHour, ThreeDaysHour, 12, NextDayHour}}
        \cup {HMS(NextDayHour, 30, 0)}

TickFiring ==
    /\ Advance(FiringInstants, MaxDay)
    /\ UNCHANGED <<appointments, apptReminders, reminders, doses, notifications,
                   pushSubs, pc, cands, idx, runNo, runs, pushes, lastPush,
                   marked, fired, sessions, authLog>>

Init == InitWith(InitAppointments, SomeReminders, OneSubscription)

UpcomingAppt(p) ==
    \/ UA_Query(p)
    \/ \E out \in Answers : UA_Loop(p, out, {}, FALSE)
    \/ UA_Notify(p, FALSE)
    \/ UA_Log(p, FALSE)
    \/ Return(p)

Next ==
    \/ TickFiring
    \/ UpcomingAppt("ua1")
    \/ pc["ua1"] # "idle" /\ UA_Query("ua2")
    \/ pc["ua2"] # "idle" /\ UpcomingAppt("ua2")

Spec == Init /\ [][Next]_vars

----------------------------------------------------------------------------
(* One instance of the hourly check, run at any hour of the day and a      *)
(* second time within the hour; every statement succeeds.                  *)

HourInstants ==
    {HMS(h, 0, 0) : h \in 0..23} \cup {HMS(NextDayHour, 30, 0)}

TickHour ==
    /\ Advance(HourInstants, MaxDay)
    /\ UNCHANGED <<appointments, apptReminders, reminders, doses, notifications,
                   pushSubs, pc, cands, idx, runNo, runs, pushes, lastPush,
                   marked, fired, sessions, authLog>>

NextHourly ==
    \/ TickHour
    \/ UpcomingAppt("ua1")

SpecHourly == Init /\ [][NextHourly]_vars

----------------------------------------------------------------------------
(* The overdue sweep, every statement succeeding *)

OverdueAppt(p) ==
    \/ OA_Query(p)
    \/ OA_Update(p, FALSE)
    \/ OA_Notify(p, FALSE)
    \/ Return(p)

NextSweep ==
    \/ TickFiring
    \/ \E p \in OverdueApptProcs : OverdueAppt(p)

SpecSweep == Init /\ [][NextSweep]_vars

----------------------------------------------------------------------------
(* Push subscriptions and direct dispatch: routes/notifications.js *)

\* subscribeUser: INSERT ... ON DUPLICATE KEY UPDATE Is_Active = 1; false
\* (and the table untouched) when the statement fails
subscribeUser(subs, s, fails) ==
    IF fails THEN subs
    ELSE [subs EXCEPT ![s].exists = TRUE, ![s].active = TRUE]

\* a DELETE in place of the UPDATE
unsubscribeUserDeletes(subs, s, fails) ==
    IF fails \/ ~subs[s].exists THEN subs
    ELSE [subs EXCEPT ![s].exists = FALSE, ![s].active = FALSE]

\* unsubscribeUser: UPDATE Push_Subscriptions SET Is_Active = 0
\* WHERE User_ID = ? AND Endpoint = ?
unsubscribeUser(subs, s, fails) ==
    IF fails \/ ~subs[s].exists THEN subs
    ELSE [subs EXCEPT ![s].active = FALSE]

\* the statements of one call that can fail: the two of the call itself and
\* those the call executes on the subscriptions it selects (the Last_Sent_At
\* UPDATE after a delivery, the deactivating UPDATE after a 410)
FaultSets(subs, u, out) ==
    {F \in SUBSET {f \in PushFaultPoints :
                      \/ f[2] = 0
                      \/ /\ subs[f[2]].exists /\ subs[f[2]].active
                         /\ subs[f[2]].user = u
                         /\ f[1] = "lastsent" => out[f[2]] = DeliveredStatus
                         /\ f[1] = "deactivate" => out[f[2]] = GoneStatusCode} :
        Cardinality(F) <= MaxFaults}

\* gateway answers that differ only on the subscriptions the call selects
AnswersFor(subs, u) ==
    {out \in [SubIds -> DeliveryStatuses] :
        \A s \in SubIds :
            ~(subs[s].exists /\ subs[s].active /\ subs[s].user = u)
                => out[s] = DeliveredStatus}

Dispatch(subs, u, kind, out, F) ==
    LET r == sendPushNotification(subs, notifications, u, out, F)
    IN  /\ pushSubs' = r.subs
        /\ notifications' = r.notifs
        /\ pushes' = Append(pushes, PushCall(u, kind, 0, 0, r))
        /\ lastPush' = PushDetail(subs, u, out, F, r)

\* POST /subscribe for endpoint s: subscribeUser, then on success the
\* welcome notification
Subscribe(s, out, F, fails) ==
    /\ IF fails
       THEN UNCHANGED <<pushSubs, notifications, pushes, lastPush, sessions, authLog>>
       ELSE Dispatch(subscribeUser(pushSubs, s, FALSE), UserOfSub(s), "welcome",
                     out, F)
    /\ UNCHANGED <<now, appointments, apptReminders, reminders, doses, pc, cands,
                   idx, runNo, runs, marked, fired, sessions, authLog>>

\* POST /unsubscribe for endpoint s
Unsubscribe(s, fails) ==
    /\ pushSubs' = unsubscribeUser(pushSubs, s, fails)
    /\ UNCHANGED <<now, appointments, apptReminders, reminders, doses,
                   notifications, pc, cands, idx, runNo, runs, pushes, lastPush,
                   marked, fired, sessions, authLog>>

\* POST /test by user u
TestNotification(u, out, F) ==
    /\ Dispatch(pushSubs, u, "test", out, F)
    /\ UNCHANGED <<now, appointments, apptReminders, reminders, doses, pc, cands,
                   idx, runNo, runs, marked, fired, sessions, authLog>>

InitPush == InitWith(SomeAppointments, SomeReminders, AnySubscriptions)

CallsLeft == Len(pushes) < MaxCalls

\* every database statement succeeds
NextPush ==
    \/ /\ CallsLeft
       /\ \E s \in SubIds :
            \E out \in AnswersFor(subscribeUser(pushSubs, s, FALSE), UserOfSub(s)) :
                Subscribe(s, out, {}, FALSE)
    \/ \E s \in SubIds : Unsubscribe(s, FALSE)
    \/ /\ CallsLeft
       /\ \E u \in Users : \E out \in AnswersFor(pushSubs, u) :
            TestNotification(u, out, {})

SpecPush == InitPush /\ [][NextPush]_vars

\* any database statement may fail
FaultCallsLeft == Len(pushes) < MaxFaultRuns

NextPushFaults ==
    \/ /\ FaultCallsLeft
       /\ \E s \in SubIds, fails \in BOOLEAN :
            \E out \in AnswersFor(subscribeUser(pushSubs, s, FALSE), UserOfSub(s)) :
                \E F \in FaultSets(subscribeUser(pushSubs, s, FALSE), UserOfSub(s), out) :
                    Subscribe(s, out, F, fails)
    \/ /\ FaultCallsLeft
       /\ \E u \in Users : \E out \in AnswersFor(pushSubs, u) :
            \E F \in FaultSets(pushSubs, u, out) : TestNotification(u, out, F)

SpecPushFaults == InitPush /\ [][NextPushFaults]_vars

----------------------------------------------------------------------------
(* Missed-medication check and dose recording, every statement succeeding *)

MedInstants ==
    {HMS(8, 5, 0), HMS(8, MissedLagMinutes, 0),
     HMS(8, MissedLagMinutes + 1, 0), HMS(23, 59, 59)}

TickMed ==
    /\ Advance(MedInstants, MaxMedDay)
    /\ UNCHANGED <<appointments, apptReminders, reminders, doses, notifications,
                   pushSubs, pc, cands, idx, runNo, runs, pushes, lastPush,
                   marked, fired, sessions, authLog>>

InitMed == InitWith(SomeAppointments, InitReminders, OneSubscription)

\* the gateway accepts every message
AllDelivered == [s \in SubIds |-> DeliveredStatus]

MissedMed(p) ==
    \/ MM_Query(p)
    \/ MM_Send(p, AllDelivered, {}, FALSE)
    \/ MM_Notify(p, FALSE)
    \/ MM_Update(p, FALSE)
    \/ Return(p)

\* POST /usage by any patient, for any medication, without a reminder_id
\* (0) or with the id of one of the medication's reminders
Usage ==
    \E patient \in Patients, m \in PatMeds, status \in DoseStatuses :
        \E r \in {0} \cup {x \in RemIds : PmOfRem(x) = m} :
            RecordUsage(patient, m, r, status)

NextMed ==
    \/ TickMed
    \/ \E p \in MissedMedProcs : MissedMed(p)
    \/ Usage

SpecMed == InitMed /\ [][NextMed]_vars

----------------------------------------------------------------------------
(* The four scheduler tasks, one instance each, where any statement may     *)
(* fail (a lost connection, a lock timeout, a constraint).                  *)

FaultInstants == {HMS(SameDayHour, 0, 0), HMS(SameDayHour, MissedLagMinutes + 1, 0),
                  HMS(12, 0, 0)}

TickFaults ==
    /\ Advance(FaultInstants, MaxDay)
    /\ UNCHANGED <<appointments, apptReminders, reminders, doses, notifications,
                   pushSubs, pc, cands, idx, runNo, runs, pushes, lastPush,
                   marked, fired, sessions, authLog>>

InitFaults == InitWith(InitAppointments, InitReminders, OneSubscription)

UpcomingApptFaults(p) ==
    \/ UA_Query(p)
    \/ UA_QueryFails(p)
    \/ \E out \in Answers, lookupFails \in BOOLEAN : UA_Loop(p, out, {}, lookupFails)
    \/ \E fails \in BOOLEAN : UA_Notify(p, fails)
    \/ \E fails \in BOOLEAN : UA_Log(p, fails)
    \/ Return(p)

OverdueApptFaults(p) ==
    \/ OA_Query(p)
    \/ OA_QueryFails(p)
    \/ \E fails \in BOOLEAN : OA_Update(p, fails)
    \/ \E fails \in BOOLEAN : OA_Notify(p, fails)
    \/ Return(p)

MissedMedFaults(p) ==
    \/ MM_Query(p)
    \/ MM_QueryFails(p)
    \/ \E out \in Answers, lookupFails \in BOOLEAN : MM_Send(p, out, {}, lookupFails)
    \/ \E fails \in BOOLEAN : MM_Notify(p, fails)
    \/ \E fails \in BOOLEAN : MM_Update(p, fails)
    \/ Return(p)

UpcomingMedFaults(p) ==
    \/ UM_Query(p)
    \/ UM_QueryFails(p)
    \/ \E out \in Answers, lookupFails \in BOOLEAN : UM_Send(p, out, {}, lookupFails)
    \/ Return(p)

\* the runs follow one another: a task starts when no other is inside a run,
\* and MaxFaultRuns runs are followed
Others(p) ==
    /\ \A q \in Procs \ {p} : pc[q] = "idle"
    /\ pc[p] = "idle" => runs < MaxFaultRuns

NextFaults ==
    \/ TickFaults
    \/ Others("ua1") /\ UpcomingApptFaults("ua1")
    \/ \E p \in OverdueApptProcs : Others(p) /\ OverdueApptFaults(p)
    \/ \E p \in MissedMedProcs : Others(p) /\ MissedMedFaults(p)
    \/ \E p \in UpcomingMedProcs : Others(p) /\ UpcomingMedFaults(p)

SpecFaults == InitFaults /\ [][NextFaults]_vars

----------------------------------------------------------------------------
(* The hourly check beside a sweep that is slow: the sweep starts at its   *)
(* hours (0, 6, 12, 18) and may still be inside its loop when the hourly   *)
(* check of a later hour runs.  Every statement succeeds.                  *)

\* cron.schedule('0 */6 * * *', checkOverdueAppointments)
SweepPeriodHours == 6

\* appointments early in the morning of day 0 or day 1
EarlyAppointments ==
    {f \in [ApptIds -> [patient : Patients, date : {0, 1}, time : {HMS(5, 0, 0)},
                        status : {"Scheduled"}]] :
        \A a \in ApptIds : f[a].patient = PatientOfAppt(a)}

RaceInstants == {HMS(SweepPeriodHours, 0, 0), HMS(SameDayHour, 0, 0)}

\* the clock moves on while the sweep is inside a run; the hourly check is
\* between runs
TickRace ==
    /\ \A p \in Procs \ OverdueApptProcs : pc[p] = "idle"
    /\ LET later == {t \in RaceInstants : t > now.sec}
       IN  IF later # {}
           THEN now' = [day |-> now.day, sec |-> Min(later)]
           ELSE /\ now.day < MaxDay
                /\ now' = [day |-> now.day + 1, sec |-> Min(RaceInstants)]
    /\ UNCHANGED <<appointments, apptReminders, reminders, doses, notifications,
                   pushSubs, pc, cands, idx, runNo, runs, pushes, lastPush,
                   marked, fired, sessions, authLog>>

InitRace == InitWith(EarlyAppointments, SomeReminders, OneSubscription)

SlowSweep(p) ==
    \/ Hour(now) % SweepPeriodHours = 0 /\ OA_Query(p)
    \/ OA_Update(p, FALSE)
    \/ OA_Notify(p, FALSE)
    \/ Return(p)

NextRace ==
    \/ TickRace
    \/ UpcomingAppt("ua1")
    \/ \E p \in OverdueApptProcs : SlowSweep(p)

SpecRace == InitRace /\ [][NextRace]_vars

----------------------------------------------------------------------------
(* Upcoming-medication check and dose recording over two days, every       *)
(* statement succeeding.                                                   *)

\* the minutes at which a reminder of RemTimes is due
DueInstants == RemTimes

TickDue ==
    /\ Advance(DueInstants, MaxMedDay)
    /\ UNCHANGED <<appointments, apptReminders, reminders, doses, notifications,
                   pushSubs, pc, cands, idx, runNo, runs, pushes, lastPush,
                   marked, fired, sessions, authLog>>

UpcomingMed(p) ==
    \/ UM_Query(p)
    \/ UM_Send(p, AllDelivered, {}, FALSE)
    \/ Return(p)

NextDue ==
    \/ TickDue
    \/ \E p \in UpcomingMedProcs : UpcomingMed(p)
    \/ Usage

SpecDue == InitMed /\ [][NextDue]_vars

----------------------------------------------------------------------------
(* The missed-medication check as the scheduler keeps running it: a run at *)
(* quarter hours, again and again, every statement succeeding.             *)

QuarterInstants == {HMS(0, MissedLagMinutes, 0), HMS(8, 2 * MissedLagMinutes, 0)}

TickQuarter ==
    /\ Advance(QuarterInstants, MaxMedDay)
    /\ UNCHANGED <<appointments, apptReminders, reminders, doses, notifications,
                   pushSubs, pc, cands, idx, runNo, runs, pushes, lastPush,
                   marked, fired, sessions, authLog>>

\* the SELECT of one more run; runs (history) counts the runs up to MaxRuns
MM_QueryAgain(p) ==
    /\ pc[p] = "idle"
    /\ runs' = IF runs < MaxRuns THEN runs + 1 ELSE runs
    /\ runNo' = [runNo EXCEPT ![p] = runs']
    /\ cands' = [cands EXCEPT ![p] = MissedMedications]
    /\ idx' = [idx EXCEPT ![p] = 1]
    /\ pc' = [pc EXCEPT ![p] = IF MissedMedications = <<>> THEN "done" ELSE "send"]
    /\ UNCHANGED <<now, appointments, apptReminders, reminders, doses,
                   notifications, pushSubs, pushes, lastPush, marked, fired,
                   sessions, authLog>>

MissedMedAgain(p) ==
    \/ MM_QueryAgain(p)
    \/ MM_Send(p, AllDelivered, {}, FALSE)
    \/ MM_Notify(p, FALSE)
    \/ MM_Update(p, FALSE)
    \/ Return(p)

NextQuarter ==
    \/ TickQuarter
    \/ \E p \in MissedMedProcs : MissedMedAgain(p)
    \/ Usage

\* the scheduler fires the task every 15 minutes and every awaited statement
\* returns: a run that can take a step takes it, and time passes between
\* runs however many of them there are
SpecQuarter ==
    /\ InitMed
    /\ [][NextQuarter]_vars
    /\ SF_vars(TickQuarter)
    /\ \A p \in MissedMedProcs : WF_vars(MissedMedAgain(p))

----------------------------------------------------------------------------
(* The upcoming-medication check whose query is evaluated in the first or  *)
(* in a later second of the minute the scheduler fired it in; every        *)
(* statement succeeds.                                                     *)

\* the moments at which the SELECT's NOW() is taken: the minute of the
\* morning reminders at second 0, 1 and 59
MinuteInstants == {HMS(8, 0, 0), HMS(8, 0, 1), HMS(8, 0, 59)}

TickMinute ==
    /\ Advance(MinuteInstants, MaxMedDay)
    /\ UNCHANGED <<appointments, apptReminders, reminders, doses, notifications,
                   pushSubs, pc, cands, idx, runNo, runs, pushes, lastPush,
                   marked, fired, sessions, authLog>>

NextMinute ==
    \/ TickMinute
    \/ \E p \in UpcomingMedProcs : UpcomingMed(p)
    \/ Usage

SpecMinute == InitMed /\ [][NextMinute]_vars

----------------------------------------------------------------------------
(* The hourly appointment check and the upcoming-medication check as the   *)
(* scheduler fires them: one run of each at every scheduled instant, the   *)
(* next run at the next instant.  The SELECT of the first runs may throw   *)
(* (a transient database error); every other statement succeeds.           *)

RetryInstants == {HMS(SameDayHour, 0, 0), HMS(ThreeDaysHour, 0, 0),
                  HMS(NextDayHour, 0, 0)}

RetryProcs == {"ua1"} \cup UpcomingMedProcs

\* a run begins at a scheduled instant; runs (history) counts the runs up
\* to MaxRuns
BeginAgain(p, rows, first) ==
    /\ pc[p] = "idle"
    /\ now.sec \in RetryInstants
    /\ runs' = IF runs < MaxRuns THEN runs + 1 ELSE runs
    /\ runNo' = [runNo EXCEPT ![p] = runs']
    /\ cands' = [cands EXCEPT ![p] = rows]
    /\ idx' = [idx EXCEPT ![p] = 1]
    /\ pc' = [pc EXCEPT ![p] = first]

UA_QueryAgain(p) ==
    /\ BeginAgain(p, UpcomingAppointments, "loop")
    /\ UNCHANGED <<now, appointments, apptReminders, reminders, doses,
                   notifications, pushSubs, pushes, lastPush, marked, fired,
                   sessions, authLog>>

UM_QueryAgain(p) ==
    /\ BeginAgain(p, UpcomingMedications,
                  IF UpcomingMedications = <<>> THEN "done" ELSE "send")
    /\ UNCHANGED <<now, appointments, apptReminders, reminders, doses,
                   notifications, pushSubs, pushes, lastPush, marked, fired,
                   sessions, authLog>>

\* the SELECT throws in one of the first MaxRuns runs: the task's catch logs
\* the error and the function returns
QueryFailsEarly(p) ==
    /\ runs < MaxRuns
    /\ BeginAgain(p, <<>>, "failed")
    /\ UNCHANGED <<now, appointments, apptReminders, reminders, doses,
                   notifications, pushSubs, pushes, lastPush, marked, fired,
                   sessions, authLog>>

\* the task function returns; the scheduler calls it again at its next
\* scheduled instant
Sleep(p) ==
    /\ pc[p] \in {"done", "failed"}
    /\ pc' = [pc EXCEPT ![p] = "slept"]
    /\ cands' = [cands EXCEPT ![p] = <<>>]
    /\ idx' = [idx EXCEPT ![p] = 1]
    /\ runNo' = [runNo EXCEPT ![p] = 0]
    /\ UNCHANGED <<now, appointments, apptReminders, reminders, doses,
                   notifications, pushSubs, runs, pushes, lastPush, marked, fired,
                   sessions, authLog>>

\* the next scheduled instant, once the runs of this one have returned
TickRetry ==
    /\ \/ now.sec \notin RetryInstants
       \/ \A p \in RetryProcs : pc[p] = "slept"
    /\ LET later == {t \in RetryInstants : t > now.sec}
       IN  IF later # {}
           THEN now' = [day |-> now.day, sec |-> Min(later)]
           ELSE /\ now.day < MaxMedDay
                /\ now' = [day |-> now.day + 1, sec |-> Min(RetryInstants)]
    /\ pc' = [p \in Procs |-> "idle"]
    /\ UNCHANGED <<appointments, apptReminders, reminders, doses, notifications,
                   pushSubs, cands, idx, runNo, runs, pushes, lastPush, marked,
                   fired, sessions, authLog>>

\* appointment 1 is today's, the others today's or tomorrow's
RetryAppointments == {f \in EarlyAppointments : f[1].date = 0}

InitRetry == InitWith(RetryAppointments, SomeReminders, OneSubscription)

UpcomingApptRetry(p) ==
    \/ UA_QueryAgain(p)
    \/ QueryFailsEarly(p)
    \/ UA_Loop(p, AllDelivered, {}, FALSE)
    \/ UA_Notify(p, FALSE)
    \/ UA_Log(p, FALSE)
    \/ Sleep(p)

UpcomingMedRetry(p) ==
    \/ UM_QueryAgain(p)
    \/ QueryFailsEarly(p)
    \/ UM_Send(p, AllDelivered, {}, FALSE)
    \/ Sleep(p)

NextRetry ==
    \/ TickRetry
    \/ UpcomingApptRetry("ua1")
    \/ \E p \in UpcomingMedProcs : UpcomingMedRetry(p)

\* the scheduler keeps firing both tasks and every awaited statement returns
SpecRetry ==
    /\ InitRetry
    /\ [][NextRetry]_vars
    /\ WF_vars(TickRetry)
    /\ WF_vars(UpcomingApptRetry("ua1"))
    /\ \A p \in UpcomingMedProcs : WF_vars(UpcomingMedRetry(p))

----------------------------------------------------------------------------
(* The appointment check and the missed-medication check where push        *)
(* delivery may fail (the gateway rejects, the user has no subscription,  *)
(* the SELECT of the subscriptions throws) and every other statement       *)
(* succeeds.                                                               *)

UndeliveredInstants == {HMS(8, MissedLagMinutes + 1, 0), HMS(ThreeDaysHour, 0, 0)}

TickUndelivered ==
    /\ Advance(UndeliveredInstants, MaxMedDay)
    /\ UNCHANGED <<appointments, apptReminders, reminders, doses, notifications,
                   pushSubs, pc, cands, idx, runNo, runs, pushes, lastPush,
                   marked, fired, sessions, authLog>>

\* the SELECT of sendPushNotification throws or not
SelectFaults == {{}, {<<"select", 0>>}}

InitUndelivered == InitWith(SomeAppointments, SomeReminders, OneSubscription)

\* the two tasks are scheduled at different minutes: a run of one does not
\* overlap a run of the other
Alone(p) == \A q \in Procs \ {p} : pc[q] = "idle"

UpcomingApptUndelivered(p) ==
    \/ UA_Query(p)
    \/ \E out \in Answers, F \in SelectFaults : UA_Loop(p, out, F, FALSE)
    \/ UA_Notify(p, FALSE)
    \/ UA_Log(p, FALSE)
    \/ Return(p)

MissedMedUndelivered(p) ==
    \/ MM_Query(p)
    \/ \E out \in Answers, F \in SelectFaults : MM_Send(p, out, F, FALSE)
    \/ MM_Notify(p, FALSE)
    \/ MM_Update(p, FALSE)
    \/ Return(p)

NextUndelivered ==
    \/ TickUndelivered
    \/ Alone("ua1") /\ UpcomingApptUndelivered("ua1")
    \/ \E p \in MissedMedProcs : Alone(p) /\ MissedMedUndelivered(p)

SpecUndelivered == InitUndelivered /\ [][NextUndelivered]_vars

----------------------------------------------------------------------------
(* The missed-medication check over a table in which the first reminder    *)
(* refers to a Patient_Medications row that does not exist; every          *)
(* statement succeeds, except that the INSERT of a Notification without a  *)
(* recipient may be rejected by the table (its definition is not part of   *)
(* the repository).                                                        *)

OrphanReminders == {[f EXCEPT ![1].pm = NoPatMed] : f \in InitReminders}

InitOrphan == InitWith(SomeAppointments, OrphanReminders, OneSubscription)

MissedMedOrphan(p) ==
    \/ MM_Query(p)
    \/ MM_Send(p, AllDelivered, {}, FALSE)
    \/ \E fails \in BOOLEAN :
          /\ pc[p] = "notify"
          /\ fails => cands[p][idx[p]].user = NoOne
          /\ MM_Notify(p, fails)
    \/ MM_Update(p, FALSE)
    \/ Return(p)

NextOrphan ==
    \/ TickMed
    \/ \E p \in MissedMedProcs : MissedMedOrphan(p)

SpecOrphan == InitOrphan /\ [][NextOrphan]_vars

----------------------------------------------------------------------------
(* POST /usage by one patient, the missed check of another *)

\* req.user.patientId of the requests, and the patient who posts nothing
PatientA == "p2"
PatientB == "p1"

\* POST /usage by `patient` with any patient_medication_id and any
\* reminder_id (0: none) in the body
UsageBy(patient) ==
    \E m \in PatMeds, status \in DoseStatuses, r \in {0} \cup RemIds :
        RecordUsage(patient, m, r, status)

NextForeign ==
    \/ TickMed
    \/ \E p \in MissedMedProcs : MissedMed(p)
    \/ UsageBy(PatientA)

SpecForeign == InitMed /\ [][NextForeign]_vars

----------------------------------------------------------------------------
(* Sessions: routes/auth.js, middleware/auth.js, utils/helpers.js *)

MaxAuthEvents == 4

TokenLifeHours == 24
RefreshLifeDays == 7

\* Users.Account_Status: the users of the other sections are Active, one
\* more account is suspended
Accounts == Users \cup {"u3"}
Account_Status(u) == IF u \in Users THEN "Active" ELSE "Suspended"

\* Patients.Patient_ID of a user (LEFT JOIN Patients p ON u.National_ID =
\* p.User_ID): NULL for a user without a patient row
PatientOfUser(u) ==
    IF \E p \in Patients : UserOfPatient(p) = u
    THEN CHOOSE p \in Patients : UserOfPatient(p) = u
    ELSE NoOne

\* what a request carries in its Authorization header: nothing, a string not
\* signed with JWT_SECRET, or a token the server signed
NoToken == [user |-> NoOne, patientId |-> "none", iat |-> 0 - 1]
Forged == [user |-> NoOne, patientId |-> "forged", iat |-> 0 - 1]

\* the payload of /refresh has no patientId
NoPatientId == "absent"

\* jwt.sign(payload, JWT_SECRET, { expiresIn: '24h' }): the string is a
\* function of the payload and of iat, the second of signing
signAccessToken(u, patientId) ==
    [user |-> u, patientId |-> patientId, iat |-> Stamp(now.day, now.sec)]

TokenExpiresAt(tok) == tok.iat + TokenLifeHours * 3600

\* jwt.verify(token, JWT_SECRET)
verifyAccessToken(tok) ==
    IF tok = Forged THEN "JsonWebTokenError"
    ELSE IF Stamp(now.day, now.sec) >= TokenExpiresAt(tok) THEN "TokenExpiredError"
    ELSE "verified"

\* INSERT INTO Sessions (..., Session_Status) VALUES (..., 'Active')
createUserSession(ss, u, tok, expiresAt) ==
    Append(ss, [user |-> u, token |-> tok, expires |-> expiresAt,
                status |-> "Active"])

\* UPDATE Sessions SET Session_Status = "Expired" WHERE National_ID = ?
\* A failure of the statement is logged and swallowed by the function's catch.
invalidateUserSessions(ss, u, fails) ==
    IF fails THEN ss
    ELSE [i \in 1..Len(ss) |->
            IF ss[i].user = u THEN [ss[i] EXCEPT !.status = "Expired"] ELSE ss[i]]

\* SELECT * FROM Sessions WHERE National_ID = ? AND Session_Token = ?
\*   AND Session_Status = "Active" AND Session_Expires_At > NOW()
ActiveSessions(ss, tok) ==
    {i \in 1..Len(ss) : /\ ss[i].user = tok.user
                        /\ ss[i].token = tok
                        /\ ss[i].status = "Active"
                        /\ ss[i].expires > Stamp(now.day, now.sec)}

\* authenticateToken: the answer of the middleware, "next" when it calls
\* next()
authenticateToken(ss, tok) ==
    IF tok = NoToken THEN "TOKEN_REQUIRED"
    ELSE IF verifyAccessToken(tok) = "TokenExpiredError" THEN "TOKEN_EXPIRED"
    ELSE IF verifyAccessToken(tok) # "verified" THEN "TOKEN_INVALID"
    ELSE IF ActiveSessions(ss, tok) = {} THEN "SESSION_INVALID"
    ELSE "next"

\* a row of the history: the route, the user of the request, the token the
\* request carried or the response handed out, the answer
AuthEvent(op, u, tok, code) ==
    [op |-> op, user |-> u, token |-> tok, code |-> code]

Answered(e) ==
    /\ Len(authLog) < MaxAuthEvents
    /\ authLog' = Append(authLog, e)

TasksAside ==
    UNCHANGED <<now, appointments, apptReminders, reminders, doses,
                notifications, pushSubs, pc, cands, idx, runNo, runs, pushes,
                lastPush, marked, fired>>

\* POST /login with the password right or wrong
Login(u, passwordOk) ==
    LET tok == signAccessToken(u, PatientOfUser(u))
    IN  IF Account_Status(u) # "Active"
        THEN /\ Answered(AuthEvent("login", u, NoToken, "ACCOUNT_INACTIVE"))
             /\ UNCHANGED sessions
             /\ TasksAside
        ELSE IF ~passwordOk
        THEN /\ Answered(AuthEvent("login", u, NoToken, "INVALID_PASSWORD"))
             /\ UNCHANGED sessions
             /\ TasksAside
        ELSE /\ Answered(AuthEvent("login", u, tok, "Login successful"))
             /\ sessions' = createUserSession(sessions, u, tok, TokenExpiresAt(tok))
             /\ TasksAside

\* the refresh tokens a client of u holds: signed by a login together with
\* its access token, good for seven days
HoldsRefreshToken(u) ==
    \E i \in 1..Len(authLog) :
        /\ authLog[i].op = "login"
        /\ authLog[i].user = u
        /\ authLog[i].code = "Login successful"
        /\ Stamp(now.day, now.sec) <
              authLog[i].token.iat + RefreshLifeDays * SecondsPerDay

\* POST /refresh with a refresh token of u
Refresh(u) ==
    /\ HoldsRefreshToken(u)
    /\ IF Account_Status(u) # "Active"
       THEN Answered(AuthEvent("refresh", u, NoToken, "USER_NOT_FOUND"))
       ELSE Answered(AuthEvent("refresh", u, signAccessToken(u, NoPatientId),
                               "Token refreshed successfully"))
    /\ UNCHANGED sessions
    /\ TasksAside

\* the access tokens handed out so far
HandedOut ==
    {authLog[i].token : i \in
        {i \in 1..Len(authLog) :
            authLog[i].code \in {"Login successful", "Token refreshed successfully"}}}

Presentable == HandedOut \cup {NoToken, Forged}

\* a request to a route behind authenticateToken
Request(tok) ==
    /\ Answered(AuthEvent("request", tok.user, tok, authenticateToken(sessions, tok)))
    /\ UNCHANGED sessions
    /\ TasksAside

\* POST /logout, the UPDATE of invalidateUserSessions succeeding or failing
Logout(tok, fails) ==
    /\ IF authenticateToken(sessions, tok) = "next"
       THEN /\ Answered(AuthEvent("logout", tok.user, tok, "Logout successful"))
            /\ sessions' = invalidateUserSessions(sessions, tok.user, fails)
       ELSE /\ Answered(AuthEvent("logout", tok.user, tok,
                                  authenticateToken(sessions, tok)))
            /\ UNCHANGED sessions
    /\ TasksAside

AuthInstants == {HMS(9, 0, 0), HMS(10, 0, 0)}

TickAuth ==
    /\ Advance(AuthInstants, MaxMedDay)
    /\ UNCHANGED <<appointments, apptReminders, reminders, doses, notifications,
                   pushSubs, pc, cands, idx, runNo, runs, pushes, lastPush,
                   marked, fired, sessions, authLog>>

NextAuth ==
    \/ TickAuth
    \/ \E u \in Accounts, passwordOk \in BOOLEAN : Login(u, passwordOk)
    \/ \E u \in Accounts : Refresh(u)
    \/ \E tok \in Presentable : Request(tok)
    \/ \E tok \in HandedOut : Logout(tok, FALSE)

InitAuth == InitWith(SomeAppointments, SomeReminders, OneSubscription)

\* every database statement succeeds
SpecAuth == InitAuth /\ [][NextAuth]_vars

\* the UPDATE of a logout may fail
NextAuthFaults ==
    \/ TickAuth
    \/ \E u \in Users : Login(u, TRUE)
    \/ \E tok \in HandedOut : Request(tok)
    \/ \E tok \in HandedOut, fails \in BOOLEAN : Logout(tok, fails)

SpecAuthFaults == InitAuth /\ [][NextAuthFaults]_vars

----------------------------------------------------------------------------
(* Properties *)

\* the rows of a sequence that satisfy a test, as a set of indices
Rows(seq, Test(_)) == {i \in 1..Len(seq) : Test(seq[i])}

\* C1: the Appointment Reminder Log never holds two rows for the same
\* (appointment, reminder type, calendar day), overlapping runs included.
C1_OneLogRowPerDay ==
    \A i, j \in 1..Len(apptReminders) :
        ( /\ apptReminders[i].appt = apptReminders[j].appt
          /\ apptReminders[i].type = apptReminders[j].type
          /\ apptReminders[i].day = apptReminders[j].day ) => i = j

TableType(d, h) ==
    IF d = 0 /\ h = 8 THEN "same_day"
    ELSE IF d = 1 /\ h = 18 THEN "next_day"
    ELSE IF d = 3 /\ h = 9 THEN "three_days"
    ELSE "none"

\* C3: a run of the appointment check that has ended fired a reminder for an
\* appointment exactly when the appointment is Scheduled, (daysUntil, hour)
\* is (0, 8), (1, 18) or (3, 9), and no reminder of that type had been logged
\* for it that day before the run; the type fired is the one of the table.
C3_FiringTable ==
    \A p \in UpcomingApptProcs :
        pc[p] = "done" =>
            \A a \in ApptIds :
                LET type == TableType(appointments[a].date - now.day, Hour(now))
                    loggedBefore ==
                        \E i \in 1..Len(apptReminders) :
                            /\ apptReminders[i].appt = a
                            /\ apptReminders[i].type = type
                            /\ apptReminders[i].day = now.day
                            /\ apptReminders[i].run # runNo[p]
                    due == /\ appointments[a].status = "Scheduled"
                           /\ type # "none"
                           /\ ~loggedBefore
                    byRun == {i \in 1..Len(fired) :
                                fired[i].appt = a /\ fired[i].run = runNo[p]}
                IN  /\ due <=> byRun # {}
                    /\ \A i \in byRun : fired[i].type = type /\ fired[i].hour = Hour(now)

\* a run ended having fired for the appointment 3 days ahead at 09:00 and
\* not for the one 2 days ahead
C3_Witness ==
    /\ pc["ua1"] = "done"
    /\ Hour(now) = 9
    /\ Len(cands["ua1"]) = 2
    /\ \E i, j \in 1..2 :
          /\ cands["ua1"][i].fired = "three_days"
          /\ cands["ua1"][j].days_until = 2
          /\ cands["ua1"][j].fired = "none"

\* the Medication_Reminders updates of the missed check
MissedMarks == {i \in 1..Len(marked) : marked[i].table = "Medication_Reminders"}

\* C4: every reminder that is Missed was set so by a missed-check run, and
\* every such run evaluated the reminder when it was Pending, more than 15
\* minutes past its time of day, with no Taken dose of its medication that day.
C4_MissedWasLate ==
    /\ \A r \in RemIds :
          reminders[r].status = "Missed" => \E i \in MissedMarks : marked[i].id = r
    /\ \A i \in MissedMarks :
          /\ marked[i].row.lateBy > 15 * 60
          /\ marked[i].row.wasPending
          /\ ~marked[i].row.takenToday

\* a reminder for 08:00 is Missed, marked by the run of 08:16
C4_Witness ==
    \E i \in MissedMarks :
        /\ marked[i].row.lateBy = 16 * 60
        /\ reminders[marked[i].id].status = "Missed"

\* a Taken dose of medication m dated day d was recorded before run k began
TakenBefore(m, d, k) ==
    \E x \in doses : x.pm = m /\ x.day = d /\ x.status = "Taken" /\ x.at < k

\* C5: a missed-check run that began after a Taken dose of a medication was
\* recorded that day makes no push call and no missed_medication
\* Notification for any reminder of that medication and updates none of them.
C5_TakenSuppresses ==
    \A p \in MissedMedProcs :
        pc[p] # "idle" =>
            \A r \in RemIds :
                TakenBefore(reminders[r].pm, now.day, runNo[p]) =>
                    /\ \A i \in 1..Len(pushes) :
                          ~(pushes[i].run = runNo[p] /\ pushes[i].subject = r)
                    /\ \A i \in 1..Len(notifications) :
                          ~(notifications[i].run = runNo[p]
                              /\ notifications[i].subject = r)
                    /\ \A i \in MissedMarks :
                          ~(marked[i].run = runNo[p] /\ marked[i].id = r)

\* the scenario: reminder for 08:00, dose Taken at 08:05, the run of 08:16
\* has ended and the reminder is still Pending
C5_Witness ==
    /\ pc["mm1"] = "done"
    /\ now.sec = HMS(8, 16, 0)
    /\ \E r \in RemIds :
          /\ reminders[r].time = HMS(8, 0, 0)
          /\ reminders[r].status = "Pending"
          /\ TakenBefore(reminders[r].pm, now.day, runNo["mm1"])

SweepMarks == {i \in 1..Len(marked) : marked[i].table = "Appointments"}

\* C7 as stated: the sweep sets an appointment to Missed only if it is past
\* and at most 1 day (24 hours) overdue.
C7_Within24Hours ==
    \A i \in SweepMarks :
        /\ marked[i].row.overdueBy > 0
        /\ marked[i].row.overdueBy <= SecondsPerDay

\* C7 amended: the sweep sets an appointment to Missed only if it is past
\* and its date is today or yesterday; it was Scheduled at the query.
C7_SinceYesterday ==
    \A i \in SweepMarks :
        /\ marked[i].row.overdueBy > 0
        /\ marked[i].row.date >= marked[i].row.qday - 1
        /\ marked[i].from = "Scheduled"

\* an appointment dated yesterday, more than 24 hours overdue, is now Missed
C7_Witness ==
    \E i \in SweepMarks :
        /\ marked[i].row.overdueBy > SecondsPerDay
        /\ marked[i].row.date = marked[i].row.qday - 1
        /\ appointments[marked[i].id].status = "Missed"

\* the subscriptions the latest call had to select
Selected == {s \in lastPush.before : UserOfSub(s) = lastPush.user}

C9_NeverRaises ==
    /\ lastPush.outcome \in {"none", "returned"}
    /\ lastPush.sent \in Nat /\ lastPush.failed \in Nat
    /\ \A i \in 1..Len(pushes) : pushes[i].outcome = "returned"

\* a call returned although the deactivating UPDATE inside the catch block
\* failed: the subscription is still active
C9_Witness ==
    /\ lastPush.outcome = "returned"
    /\ \E s \in Selected :
          /\ lastPush.out[s] = 410
          /\ <<"deactivate", s>> \in lastPush.faults
          /\ pushSubs[s].active

\* C10: in every scheduler task a failure while one candidate is processed
\* does not keep the candidates after it from being processed: a run that
\* has ended, its catch block entered or not, has no candidate left.
C10_FailureIsolated ==
    \A p \in Procs :
        pc[p] \in {"done", "failed"} => idx[p] >= Len(cands[p])

\* C11: the status of a medication reminder only moves from Pending to Sent
\* or from Pending to Missed: in no step does a Sent reminder become Missed,
\* a Missed reminder become Sent, or a reminder return to Pending.
C11_StatusIsTerminal ==
    [][\A r \in RemIds :
          /\ reminders[r].status = "Sent" => reminders'[r].status = "Sent"
          /\ reminders[r].status = "Missed" => reminders'[r].status = "Missed"
          /\ reminders[r].status # "Pending" => reminders'[r].status # "Pending"]_vars

ActiveNow == {s \in SubIds : pushSubs[s].exists /\ pushSubs[s].active}

\* C14: no step removes a push subscription row or moves it to another
\* user; and a step that subscribes an endpoint leaves its row in place,
\* active for the welcome call, and active afterwards unless the gateway
\* answered 410 to that call.
C14_NeverRemoved ==
    [][/\ \A s \in SubIds :
            pushSubs[s].exists =>
                pushSubs'[s].exists /\ pushSubs'[s].user = pushSubs[s].user
       /\ ( Len(pushes') > Len(pushes) /\ pushes'[Len(pushes')].kind = "welcome" ) =>
            \E s \in SubIds :
                /\ UserOfSub(s) = lastPush'.user
                /\ lastPush'.before = ActiveNow \cup {s}
                /\ pushSubs'[s].exists
                /\ pushSubs'[s].active <=> lastPush'.out[s] # 410]_vars

\* an endpoint was subscribed and the gateway answered 410 to the welcome
\* message: its row is there, inactive, next to another inactive row
C14_Witness ==
    /\ Len(pushes) > 0
    /\ pushes[Len(pushes)].kind = "welcome"
    /\ \E g \in Selected :
          /\ lastPush.out[g] = 410
          /\ pushSubs[g].exists /\ ~pushSubs[g].active
          /\ \E s \in SubIds \ {g} : pushSubs[s].exists /\ ~pushSubs[s].active

\* C15: once the sweep has set an appointment to Missed, no step of the
\* hourly check makes a push call, creates an appointment_reminder
\* Notification or appends a reminder log row for that appointment.
C15_NoReminderAfterMissed ==
    [][/\ Len(pushes') > Len(pushes) =>
            LET c == pushes'[Len(pushes')]
            IN  c.kind = "appointment_reminder" =>
                    appointments[c.subject].status # "Missed"
       /\ Len(notifications') > Len(notifications) =>
            LET n == notifications'[Len(notifications')]
            IN  n.type = "appointment_reminder" =>
                    appointments[n.subject].status # "Missed"
       /\ Len(apptReminders') > Len(apptReminders) =>
            appointments[apptReminders'[Len(apptReminders')].appt].status
                # "Missed"]_vars

\* C16: no step of a run of the upcoming-medication check changes a
\* reminder, a dose record or the appointment reminder log.
C16_UpcomingWritesNothing ==
    [][(\E p \in UpcomingMedProcs : pc'[p] # pc[p] \/ idx'[p] # idx[p]) =>
            /\ reminders' = reminders
            /\ doses' = doses
            /\ apptReminders' = apptReminders]_vars

\* a run has pushed for a reminder and finished; the reminder is still Pending
C16_Witness ==
    /\ pc["um1"] = "done"
    /\ \E i \in 1..Len(pushes) :
          /\ pushes[i].run = runNo["um1"]
          /\ pushes[i].kind = "medication_reminder"
          /\ reminders[pushes[i].subject].status = "Pending"

\* the push calls and the in-app Notifications of the hourly check
ReminderPush(a, run) ==
    \E i \in 1..Len(pushes) :
        /\ pushes[i].kind = "appointment_reminder"
        /\ pushes[i].subject = a
        /\ pushes[i].run = run

ReminderNotification(a, run) ==
    \E i \in 1..Len(notifications) :
        /\ notifications[i].type = "appointment_reminder"
        /\ notifications[i].subject = a
        /\ notifications[i].run = run

MissedNotices(a, u, run) ==
    {i \in 1..Len(notifications) :
        /\ notifications[i].type = "missed_appointment"
        /\ notifications[i].subject = a
        /\ notifications[i].recipient = u
        /\ notifications[i].run = run}

DueDay(r) == IF now.sec >= reminders[r].time THEN now.day ELSE now.day - 1

\* seconds elapsed since that occurrence
SinceDue(r) == Stamp(now.day, now.sec) - Stamp(DueDay(r), reminders[r].time)

\* reminder r is Pending, more than 15 minutes past its time-of-day, and its
\* medication has no Taken dose on the day it was due or today
Overdue(r) ==
    /\ reminders[r].status = "Pending"
    /\ DueDay(r) >= 0
    /\ SinceDue(r) > MissedLagMinutes * 60
    /\ ~\E d \in doses : /\ d.pm = reminders[r].pm
                         /\ d.status = "Taken"
                         /\ d.day \in {DueDay(r), now.day}

\* C19: while missed-check runs keep occurring, a reminder that is Pending,
\* without a Taken dose and more than 15 minutes past its time-of-day is
\* eventually set to Missed (or leaves that condition), whatever its
\* time-of-day.
C19_EventuallyMissed ==
    \A r \in RemIds :
        Overdue(r) ~> (reminders[r].status = "Missed" \/ ~Overdue(r))

\* the same for the reminders due before the last 15 minutes of the day
C19_EventuallyMissedBeforeLastQuarter ==
    \A r \in RemIds :
        (Overdue(r) /\ reminders[r].time + MissedLagMinutes * 60 < SecondsPerDay)
            ~> (reminders[r].status = "Missed" \/ ~Overdue(r))

\* C20: on every day on which no dose (Taken or other) is recorded for its
\* medication, the upcoming check run at a reminder's time-of-day makes a
\* push call for that reminder, whatever status the reminder was given on
\* an earlier day.
C20_RecursDaily ==
    \A p \in UpcomingMedProcs :
        pc[p] = "done" =>
            \A r \in RemIds :
                /\ reminders[r].time = now.sec
                /\ ~\E d \in doses : d.pm = reminders[r].pm /\ d.day = now.day
                => \E i \in 1..Len(pushes) :
                        /\ pushes[i].kind = "medication_reminder"
                        /\ pushes[i].subject = r
                        /\ pushes[i].run = runNo[p]
                        /\ pushes[i].day = now.day

\* the minute of the day of a time in seconds
MinuteOf(t) == t \div 60

\* C21: a finished run of the upcoming-medication check has made a push
\* call for every reminder that is Pending, whose time-of-day is in the
\* minute of the run's query and whose medication has no Taken dose today,
\* whatever the second of the query.
C21_DueInMinuteDelivered ==
    \A p \in UpcomingMedProcs :
        pc[p] = "done" =>
            \A r \in RemIds :
                /\ reminders[r].status = "Pending"
                /\ MinuteOf(reminders[r].time) = MinuteOf(now.sec)
                /\ ~TakenToday(reminders[r].pm)
                => \E i \in 1..Len(pushes) :
                        /\ pushes[i].kind = "medication_reminder"
                        /\ pushes[i].subject = r
                        /\ pushes[i].run = runNo[p]

\* the same for the runs whose query is evaluated at the reminder's second
C21_DueAtSecondDelivered ==
    \A p \in UpcomingMedProcs :
        pc[p] = "done" =>
            \A r \in RemIds :
                /\ reminders[r].status = "Pending"
                /\ reminders[r].time = now.sec
                /\ ~TakenToday(reminders[r].pm)
                => \E i \in 1..Len(pushes) :
                        /\ pushes[i].kind = "medication_reminder"
                        /\ pushes[i].subject = r
                        /\ pushes[i].run = runNo[p]

\* the appointment check has fired `type` for appointment a (a type is due
\* on one day only: the appointment's day, the day before, three days before)
FiredFor(a, type) ==
    \E k \in 1..Len(fired) : fired[k].appt = a /\ fired[k].type = type

\* the upcoming-medication check has made a push call for reminder r on day d
DeliveredFor(r, d) ==
    \E i \in 1..Len(pushes) :
        /\ pushes[i].kind = "medication_reminder"
        /\ pushes[i].subject = r
        /\ pushes[i].day = d

\* C22: a due appointment reminder whose run failed on its SELECT is fired
\* by a later run, and a due medication reminder whose run failed on its
\* SELECT is delivered by a later run.
C22_FailedRunRetried ==
    /\ \A a \in ApptIds, type \in {"same_day", "next_day", "three_days"} :
          (/\ pc["ua1"] = "failed"
           /\ appointments[a].status = "Scheduled"
           /\ ReminderTypeAt(DaysUntil(a), Hour(now)) = type
           /\ ~LoggedToday(a, type))
              ~> FiredFor(a, type)
    /\ \A r \in RemIds, d \in 0..MaxMedDay, p \in UpcomingMedProcs :
          (/\ pc[p] = "failed"
           /\ now.day = d
           /\ reminders[r].status = "Pending"
           /\ reminders[r].time = now.sec
           /\ ~TakenToday(reminders[r].pm))
              ~> DeliveredFor(r, d)

\* the appointment half alone
C22_FailedFireRetried ==
    \A a \in ApptIds, type \in {"same_day", "next_day", "three_days"} :
        (/\ pc["ua1"] = "failed"
         /\ appointments[a].status = "Scheduled"
         /\ ReminderTypeAt(DaysUntil(a), Hour(now)) = type
         /\ ~LoggedToday(a, type))
            ~> FiredFor(a, type)

\* the medication half alone
C22_FailedDeliveryRetried ==
    \A r \in RemIds, d \in 0..MaxMedDay, p \in UpcomingMedProcs :
        (/\ pc[p] = "failed"
         /\ now.day = d
         /\ reminders[r].status = "Pending"
         /\ reminders[r].time = now.sec
         /\ ~TakenToday(reminders[r].pm))
            ~> DeliveredFor(r, d)

C24_NoSubscriptionNoEffect ==
    [][Len(pushes') > Len(pushes) =>
          LET call == lastPush'
              sel == {s \in call.before : UserOfSub(s) = call.user}
          IN  sel = {} =>
                  /\ call.outcome = "returned"
                  /\ call.sent = 0
                  /\ call.failed = 0
                  /\ call.attempted = {}
                  /\ pushSubs' = pushSubs
                  /\ notifications' = notifications]_vars

\* the latest call was for a user whose only subscriptions are deactivated
C24_Witness ==
    /\ Len(pushes) > 0
    /\ lastPush.user \in Users
    /\ Selected = {}
    /\ \E s \in SubIds : /\ UserOfSub(s) = lastPush.user
                         /\ pushSubs[s].exists
                         /\ ~pushSubs[s].active
    /\ \E s \in lastPush.before : UserOfSub(s) # lastPush.user
    /\ pushes[Len(pushes)].sent = 0
    /\ pushes[Len(pushes)].failed = 0

\* the push calls of run `run` about `subject` that reached a device
Reached(kind, subject, run) ==
    {i \in 1..Len(pushes) :
        /\ pushes[i].kind = kind
        /\ pushes[i].subject = subject
        /\ pushes[i].run = run
        /\ pushes[i].sent > 0}

\* C25: whatever became of the push, every appointment reminder a run has
\* fired and moved past has its appointment_reminder Notification and its
\* log row, and every missed reminder a run has moved past has its
\* missed_medication Notification and the status Missed.
C25_NotifiedWithoutPush ==
    /\ \A k \in 1..Len(fired) :
          LET f == fired[k]
          IN  (\A p \in UpcomingApptProcs :
                  runNo[p] = f.run =>
                      \/ pc[p] = "done"
                      \/ idx[p] > Len(cands[p])
                      \/ cands[p][idx[p]].id # f.appt)
              => /\ ReminderNotification(f.appt, f.run)
                 /\ \E i \in 1..Len(apptReminders) :
                       /\ apptReminders[i].appt = f.appt
                       /\ apptReminders[i].type = f.type
                       /\ apptReminders[i].day = f.day
    /\ \A p \in MissedMedProcs :
          pc[p] \in {"send", "notify", "update", "done"} =>
              \A i \in 1..Len(cands[p]) :
                  i < idx[p] =>
                      /\ reminders[cands[p][i].id].status = "Missed"
                      /\ \E n \in 1..Len(notifications) :
                            /\ notifications[n].type = "missed_medication"
                            /\ notifications[n].subject = cands[p][i].id
                            /\ notifications[n].recipient = cands[p][i].user
                            /\ notifications[n].run = runNo[p]

\* a finished appointment run fired for an appointment without any push
\* reaching a device, and a finished missed-check run marked a reminder
\* without any push reaching a device: both Notifications exist
C25_Witness ==
    /\ \E k \in 1..Len(fired) :
          /\ Reached("appointment_reminder", fired[k].appt, fired[k].run) = {}
          /\ ReminderNotification(fired[k].appt, fired[k].run)
          /\ \E i \in 1..Len(apptReminders) :
                apptReminders[i].appt = fired[k].appt
    /\ \E i \in MissedMarks :
          /\ Reached("medication_reminder", marked[i].id, marked[i].run) = {}
          /\ reminders[marked[i].id].status = "Missed"
          /\ \E n \in 1..Len(notifications) :
                /\ notifications[n].type = "missed_medication"
                /\ notifications[n].subject = marked[i].id

\* C26: a reminder whose Patient_Medications row is missing is skipped by
\* the missed check: it stays Pending and no missed_medication Notification
\* is created for it.
C26_OrphanSkipped ==
    \A r \in RemIds :
        PatientOfPm(reminders[r].pm) = NoOne =>
            /\ reminders[r].status = "Pending"
            /\ ~\E n \in 1..Len(notifications) :
                  /\ notifications[n].type = "missed_medication"
                  /\ notifications[n].subject = r

\* the status half alone
C26_OrphanStaysPending ==
    \A r \in RemIds :
        PatientOfPm(reminders[r].pm) = NoOne => reminders[r].status = "Pending"

\* no push call is made for such a reminder, and the run goes on to the
\* next candidate
C26_OrphanNotPushed ==
    /\ \A i \in 1..Len(pushes) :
          pushes[i].kind = "medication_reminder" =>
              PatientOfPm(reminders[pushes[i].subject].pm) # NoOne
    /\ \A p \in MissedMedProcs :
          pc[p] = "done" =>
              \A i \in 1..Len(cands[p]) : reminders[cands[p][i].id].status = "Missed"

\* C27: a call that found n >= 1 active subscriptions returns a tally with
\* sent + failed = n, each subscription counted once (in sent when the
\* gateway accepted it, in failed otherwise), also when an UPDATE of the
\* per-subscription step fails.
C27_TallyCountsEach ==
    lastPush.selected # <<>> =>
        /\ lastPush.sent + lastPush.failed = Len(lastPush.selected)
        /\ lastPush.sent =
              Cardinality({i \in 1..Len(lastPush.selected) :
                              lastPush.out[lastPush.selected[i]] = DeliveredStatus})

\* the same with every database statement succeeding
C27_TallyWithoutFaults ==
    (lastPush.selected # <<>> /\ lastPush.faults = {}) =>
        /\ lastPush.sent + lastPush.failed = Len(lastPush.selected)
        /\ lastPush.sent =
              Cardinality({i \in 1..Len(lastPush.selected) :
                              lastPush.out[lastPush.selected[i]] = DeliveredStatus})

\* a subscription counted on both sides: the tally exceeds n
C27_CountedTwice ==
    lastPush.selected # <<>> =>
        lastPush.sent + lastPush.failed <= Len(lastPush.selected)

\* the reminders of patient B that a missed check at the present instant
\* must have handled: past their time by more than the lag
LateOf(b) ==
    {r \in RemIds : /\ reminders[r].patient = b
                    /\ now.sec > reminders[r].time + MissedLagMinutes * 60}

\* C28: POST /usage by patient A, whatever ids its body carries, creates no
\* dose record attached to a medication of patient B and changes the status
\* of no reminder of B, so B's missed check gives the result it gives when A
\* does nothing: a finished run leaves no late reminder of B Pending.
C28_NoCrossPatientEffect ==
    /\ \A d \in doses : PatientOfPm(d.pm) # PatientB
    /\ \A r \in RemIds : reminders[r].patient = PatientB => reminders[r].status # "Sent"
    /\ \A p \in MissedMedProcs :
          pc[p] = "done" => \A r \in LateOf(PatientB) : reminders[r].status # "Pending"

\* the dose half alone
C28_NoForeignDose ==
    \A d \in doses : PatientOfPm(d.pm) # PatientB

\* the reminder half alone: the UPDATE tests Patient_ID
C28_ReminderStatusKept ==
    \A r \in RemIds : reminders[r].patient = PatientB => reminders[r].status # "Sent"

\* the check of B alone
C28_CheckOfBUnaffected ==
    \A p \in MissedMedProcs :
        pc[p] = "done" => \A r \in LateOf(PatientB) : reminders[r].status # "Pending"

\* the check of B when A has posted nothing
C28_CheckOfBAlone ==
    \A p \in MissedMedProcs :
        (pc[p] = "done" /\ doses = {}) =>
            \A r \in LateOf(PatientB) : reminders[r].status # "Pending"

\* the request answered by the present step, when this step answers one
Answers1 == Len(authLog') = Len(authLog) + 1
Latest == authLog'[Len(authLog')]

\* the middleware called next() for the request of this step
Admitted ==
    \/ Latest.op = "request" /\ Latest.code = "next"
    \/ Latest.op = "logout" /\ Latest.code = "Logout successful"

Presents == Answers1 /\ Latest.op \in {"request", "logout"}

\* positions of the history where tok was handed out by `route`
IssuedAt(tok, routes) ==
    {i \in 1..Len(authLog) :
        /\ authLog[i].op \in routes
        /\ authLog[i].token = tok
        /\ authLog[i].code \in {"Login successful", "Token refreshed successfully"}}

LogoutsOf(u) ==
    {k \in 1..Len(authLog) :
        /\ authLog[k].op = "logout"
        /\ authLog[k].user = u
        /\ authLog[k].code = "Logout successful"}

LoginsOf(u) ==
    {k \in 1..Len(authLog) :
        /\ authLog[k].op = "login"
        /\ authLog[k].user = u
        /\ authLog[k].code = "Login successful"}

\* tok was handed out by one of `routes`, has not expired, and its user has
\* not logged out since
StillGood(tok, routes) ==
    /\ Stamp(now.day, now.sec) < TokenExpiresAt(tok)
    /\ \E i \in IssuedAt(tok, routes) : \A k \in LogoutsOf(tok.user) : k < i

\* a request is admitted only with a session row of the presented token and
\* of the token's user that is Active and has not expired
AdmitsOnlyWithSession ==
    (Presents /\ Admitted) =>
        \E i \in 1..Len(sessions) :
            /\ sessions[i].token = Latest.token
            /\ sessions[i].user = Latest.token.user
            /\ sessions[i].status = "Active"
            /\ sessions[i].expires > Stamp(now.day, now.sec)

AdmitsIssued(routes) ==
    (Presents /\ StillGood(Latest.token, routes)) => Admitted

\* C29: authenticateToken admits a request only with a matching Active
\* unexpired session row, and every access token handed out by /login or by
\* /refresh is admitted until it expires or its user logs out.
C29_SessionGoverned ==
    [][AdmitsOnlyWithSession /\ AdmitsIssued({"login", "refresh"})]_vars

\* the first half alone
C29_AdmitsOnlyWithSession == [][AdmitsOnlyWithSession]_vars

\* the second half for the tokens of /login
C29_LoginTokensAdmitted == [][AdmitsIssued({"login"})]_vars

\* the second half for the tokens of /refresh
C29_RefreshTokensAdmitted == [][AdmitsIssued({"refresh"})]_vars

\* tok was handed out before a logout of its user that no login of the user
\* has followed
LoggedOut(tok) ==
    /\ tok \in HandedOut
    /\ \E k \in LogoutsOf(tok.user) :
          /\ \E i \in IssuedAt(tok, {"login", "refresh"}) : i < k
          /\ \A j \in LoginsOf(tok.user) : j < k

LogoutExpiresAll ==
    (Answers1 /\ Latest.op = "logout" /\ Latest.code = "Logout successful") =>
        \A i \in 1..Len(sessions') :
            sessions'[i].user = Latest.user => sessions'[i].status = "Expired"

LoggedOutRejected ==
    (Presents /\ LoggedOut(Latest.token)) =>
        Latest.code = IF verifyAccessToken(Latest.token) = "verified"
                      THEN "SESSION_INVALID" ELSE "TOKEN_EXPIRED"

\* C30: when POST /logout has answered 'Logout successful', every session of
\* the user is Expired, and every access token handed out to the user before
\* is rejected by authenticateToken on every later request (SESSION_INVALID
\* while the token itself is unexpired) until the user logs in again.
C30_LogoutRevokes == [][LogoutExpiresAll /\ LoggedOutRejected]_vars

\* the first half alone
C30_LogoutExpiresAll == [][LogoutExpiresAll]_vars

\* the second half alone
C30_LoggedOutRejected == [][LoggedOutRejected]_vars

\* the rejection is SESSION_INVALID whatever the age of the token
C30_AlwaysSessionInvalid ==
    [][(Presents /\ LoggedOut(Latest.token)) => Latest.code = "SESSION_INVALID"]_vars

====
